---------------------------- MODULE Spec2Model ----------------------------
(***************************************************************************)
(* JSON-schema generation for serde_with adapters (schemars 0.8            *)
(* integration, src/serde_with/src/schemars_0_8.rs).                       *)
(*                                                                         *)
(* A type is a term [k, a, n]: k the type constructor, a its type          *)
(* arguments, n the const-generic length of a fixed-size array.  A binding *)
(* is the proxy type WrapSchema<T, TA>.  The state is one generation       *)
(* session: the generator with its definition table, and the last          *)
(* request answered in the session.                                        *)
(***************************************************************************)
EXTENDS Integers, Sequences, FiniteSets, TLC

VARIABLES gen, last

vars == <<gen, last>>

\* Nesting allowed to sub-schema requests before an evaluation is given up
\* as divergent (unbounded recursion in the program).
MaxDepth == 8

\* Number of synthesis runs per identity the session's run counter tells apart.
MaxRuns == 2

---------------------------------------------------------------------------
(* Machine integers.  A usize is four 16-bit limbs, a u32 two, least       *)
(* significant first.                                                      *)

Limb == 65535 + 1

usize(n) == <<n % Limb, n \div Limb, 0, 0>>

u32(n) == <<n % Limb, n \div Limb>>

u32_MAX == <<65535, 65535>>

usize_MAX == <<65535, 65535, 65535, 65535>>

\* usize -> u32 conversion: Ok(len) is {len}, Err(_) is {}.
usize_try_into_u32(N) == IF N[3] = 0 /\ N[4] = 0 THEN {<<N[1], N[2]>>} ELSE {}

\* One step of the decimal conversion: quotient and remainder of N by ten.
DivMod10(N) ==
  LET c4 == N[4]
      c3 == (c4 % 10) * Limb + N[3]
      c2 == (c3 % 10) * Limb + N[2]
      c1 == (c2 % 10) * Limb + N[1]
  IN [q |-> <<c1 \div 10, c2 \div 10, c3 \div 10, c4 \div 10>>, r |-> c1 % 10]

RECURSIVE Digits(_)
Digits(N) ==
  IF N = <<0, 0, 0, 0>> THEN ""
  ELSE LET dm == DivMod10(N) IN Digits(dm.q) \o ToString(dm.r)

\* Display of a usize, as format!("{}", N) prints it.
usize_to_string(N) == IF N = <<0, 0, 0, 0>> THEN "0" ELSE Digits(N)

---------------------------------------------------------------------------
(* Schema documents.  Option<X> is a set with at most one element:         *)
(* None is {} and Some(x) is {x}.                                          *)

None == {}

Some(x) == {x}

SchemaObject_default ==
  [tag |-> "Object", bool |-> FALSE, reference |-> None, instance_type |-> <<>>,
   format |-> None, number |-> None, array |-> None, object |-> None,
   subschemas |-> None, metadata |-> None]

Schema_Bool(b) == [SchemaObject_default EXCEPT !.tag = "Bool", !.bool = b]

\* What an evaluation that ran out of nesting stands for: no document.
Diverged == [SchemaObject_default EXCEPT !.tag = "Diverged"]

NumberValidation_default == [minimum |-> None, maximum |-> None]

ArrayValidation_default ==
  [items |-> None, max_items |-> None, min_items |-> None, unique_items |-> None]

ObjectValidation_default == [properties |-> <<>>, additional_properties |-> None]

SubschemaValidation_default == [any_of |-> None, one_of |-> None, not |-> None]

Metadata_default == [write_only |-> FALSE]

\* SingleOrVec<Schema>
Single(s) == [single |-> TRUE, list |-> <<s>>]

Vec_of(ss) == [single |-> FALSE, list |-> ss]

Schema_new_ref(reference) == [SchemaObject_default EXCEPT !.reference = Some(reference)]

Schema_is_ref(s) == s.tag = "Object" /\ s.reference # None

Schema_into_object(s) ==
  IF s.tag = "Bool"
  THEN IF s.bool
       THEN SchemaObject_default
       ELSE [SchemaObject_default EXCEPT
               !.subschemas = Some([SubschemaValidation_default EXCEPT
                                      !.not = Some(SchemaObject_default)])]
  ELSE s

\* SchemaObject::metadata(): the metadata section, created when absent.
SchemaObject_metadata(s) ==
  IF s.metadata = None THEN Metadata_default ELSE CHOOSE m \in s.metadata : TRUE


---------------------------------------------------------------------------
(* Type terms.                                                             *)

Ty0(k) == [k |-> k, a |-> <<>>, n |-> <<>>]

Ty1(k, x) == [k |-> k, a |-> <<x>>, n |-> <<>>]

Ty2(k, x, y) == [k |-> k, a |-> <<x, y>>, n |-> <<>>]

TupleTy(ts) == [k |-> "Tuple", a |-> ts, n |-> <<>>]

\* [TA; N]
ArrayTy(x, N) == [k |-> "Array", a |-> <<x>>, n |-> N]

\* crate::Schema<T, TA>, imported as WrapSchema
WrapSchema(T, TA) == Ty2("WrapSchema", T, TA)

Strict == Ty0("Strict")

Flexible == Ty0("Flexible")

Result(s, g) == [schema |-> s, gen |-> g]

RECURSIVE Join(_, _)
Join(ss, sep) ==
  IF ss = <<>> THEN ""
  ELSE IF Len(ss) = 1 THEN ss[1]
  ELSE ss[1] \o sep \o Join(Tail(ss), sep)

\* Call of method m for the type t: a method of t's impl of JsonSchema, or
\* the generator's subschema_for::<t>.
RECURSIVE Call(_, _, _, _)

JsonSchema_schema_name(t) == Call("schema_name", t, <<>>, 0)

JsonSchema_schema_id(t) == Call("schema_id", t, <<>>, 0)

JsonSchema_is_referenceable(t) == Call("is_referenceable", t, <<>>, 0)

JsonSchema_json_schema(t, g, d) == Call("json_schema", t, g, d)

subschema_for(t, g, d) == Call("subschema_for", t, g, d)

---------------------------------------------------------------------------
(* The generator (schemars::gen::SchemaGenerator, default settings): the   *)
(* definition table keyed by name, the identities already named, the       *)
(* identities under synthesis.  synthesis_runs counts, per identity, the   *)
(* synthesis runs the generator started to fill a definition; diverged     *)
(* records that an evaluation exceeded MaxDepth nested requests.           *)

SchemaGenerator_default ==
  [definitions |-> <<>>, schema_id_to_name |-> <<>>, used_schema_names |-> {},
   pending_schema_ids |-> {}, synthesis_runs |-> <<>>, diverged |-> FALSE]

definitions_path == "#/definitions/"

RECURSIVE unused_name(_, _, _)
unused_name(base_name, used, i) ==
  IF (base_name \o ToString(i)) \notin used THEN base_name \o ToString(i)
  ELSE unused_name(base_name, used, i + 1)

runs_of(g, id) == IF id \in DOMAIN g.synthesis_runs THEN g.synthesis_runs[id] ELSE 0

count_run(g, id) ==
  [g EXCEPT !.synthesis_runs =
     (id :> (IF runs_of(g, id) < MaxRuns THEN runs_of(g, id) + 1 ELSE MaxRuns)) @@ @]

json_schema_internal(t, id, g, d) ==
  LET did_add == id \notin g.pending_schema_ids
      r == JsonSchema_json_schema(t, [g EXCEPT !.pending_schema_ids = @ \cup {id}], d)
  IN Result(r.schema,
            [r.gen EXCEPT !.pending_schema_ids = IF did_add THEN @ \ {id} ELSE @])

insert_new_subschema_for(t, name, id, g, d) ==
  LET dummy == Schema_Bool(FALSE)
      g1 == count_run([g EXCEPT !.definitions = (name :> dummy) @@ @], id)
      r == json_schema_internal(t, id, g1, d)
  IN [r.gen EXCEPT !.definitions = (name :> r.schema) @@ @]

SchemaGenerator_subschema_for(t, g, d) ==
  LET id == JsonSchema_schema_id(t)
      return_ref == JsonSchema_is_referenceable(t)
      known == id \in DOMAIN g.schema_id_to_name
      base_name == JsonSchema_schema_name(t)
      name == IF known THEN g.schema_id_to_name[id]
              ELSE IF base_name \in g.used_schema_names
                   THEN unused_name(base_name, g.used_schema_names, 2)
                   ELSE base_name
      g1 == IF known THEN g
            ELSE [g EXCEPT !.used_schema_names = @ \cup {name},
                           !.schema_id_to_name = (id :> name) @@ @]
  IN IF d = 0 THEN Result(Diverged, [g EXCEPT !.diverged = TRUE])
     ELSE IF return_ref
     THEN Result(Schema_new_ref(definitions_path \o name),
                 IF name \in DOMAIN g1.definitions THEN g1
                 ELSE insert_new_subschema_for(t, name, id, g1, d - 1))
     ELSE json_schema_internal(t, id, g, d - 1)

RECURSIVE subschemas_for(_, _, _)
subschemas_for(ts, g, d) ==
  IF ts = <<>> THEN [schemas |-> <<>>, gen |-> g]
  ELSE LET r == subschema_for(ts[1], g, d)
           rest == subschemas_for(Tail(ts), r.gen, d)
       IN [schemas |-> <<r.schema>> \o rest.schemas, gen |-> rest.gen]

---------------------------------------------------------------------------
(* forward_schema!($fwd): the four operations of the forwarding target.    *)

forward_schema_schema_name(fwd) == JsonSchema_schema_name(fwd)

forward_schema_schema_id(fwd) == JsonSchema_schema_id(fwd)

\* Variant: the forwarding asks the generator for the target's sub-schema
\* instead of calling the target's json_schema.
forward_schema_json_schema_by_request(fwd, g, d) == subschema_for(fwd, g, d)

forward_schema_json_schema(fwd, g, d) == JsonSchema_json_schema(fwd, g, d)

forward_schema_is_referenceable(fwd) == JsonSchema_is_referenceable(fwd)

---------------------------------------------------------------------------
(* The impls that invoke forward_schema!, each by its forwarding target.   *)
(* T is the value type and TA the adapter of the binding.                  *)

\* &TA, &mut TA, Option, Box, Rc, Arc, Vec, VecDeque, BTreeSet over the
\* element adapter; BTreeMap and HashMap over the key and value adapters.
std_forward_kinds ==
  {"Ref", "RefMut", "Option", "Box", "Rc", "Arc", "Vec", "VecDeque", "BTreeSet",
   "BTreeMap", "HashMap", "HashSet"}

std_forward_target(T, TA) ==
  CASE TA.k \in {"Ref", "RefMut", "Option", "Box", "Rc", "Arc", "Vec", "VecDeque",
                 "BTreeSet"} ->
         Ty1(TA.k, WrapSchema(T.a[1], TA.a[1]))
    [] TA.k \in {"BTreeMap", "HashMap"} ->
         Ty2(TA.k, WrapSchema(T.a[1], TA.a[1]), WrapSchema(T.a[2], TA.a[2]))
    \* impl JsonSchemaAs<T> for HashSet<TA, S>: the whole value type is wrapped
    [] TA.k = "HashSet" -> Ty1("HashSet", WrapSchema(T, TA.a[1]))

\* schema_for_tuple!: (A0, ..) for (T0, ..); and () for ()
tuple_forward_target(T, TA) ==
  IF TA.k = "Unit" THEN Ty0("Unit")
  ELSE TupleTy([i \in 1..Len(TA.a) |-> WrapSchema(T.a[i], TA.a[i])])

serde_with_forward_kinds ==
  {"Same", "DisplayFromStr", "BorrowCow", "Bytes", "DefaultOnError", "DefaultOnNull",
   "FromInto", "FromIntoRef", "TryFromInto", "TryFromIntoRef", "SetPreventDuplicates",
   "StringWithSeparator", "VecSkipError"}

serde_with_forward_target(T, TA) ==
  CASE TA.k = "Same" -> T
    [] TA.k = "DisplayFromStr" -> Ty0("String")
    [] TA.k = "BorrowCow" -> T
    [] TA.k = "Bytes" -> Ty1("Vec", Ty0("u8"))
    [] TA.k = "DefaultOnError" -> WrapSchema(T, TA.a[1])
    [] TA.k = "DefaultOnNull" -> Ty1("Option", WrapSchema(T, TA.a[1]))
    [] TA.k \in {"FromInto", "FromIntoRef", "TryFromInto", "TryFromIntoRef"} -> TA.a[1]
    [] TA.k = "SetPreventDuplicates" -> WrapSchema(T, TA.a[1])
    [] TA.k = "StringWithSeparator" -> Ty0("String")
    [] TA.k = "VecSkipError" -> Ty1("Vec", WrapSchema(T.a[1], TA.a[1]))

\* schema_for_map! and the Map impls for HashSet<(K, V)> and [(K, V); N]:
\* T is a container of (K, V) pairs.
\* The pair type (K, V) the impl's header matches in the container type T:
\* the item of the container, for Box<[(K, V)]> the item of the boxed slice.
Map_pair(T) == IF T.k = "Box" THEN T.a[1].a[1] ELSE T.a[1]

\* Variant: the container is described as the sequence of pairs it is.
map_forward_target_as_sequence(T, TA) ==
  Ty1("Vec", WrapSchema(Map_pair(T), TupleTy(<<TA.a[1], TA.a[2]>>)))

map_forward_target(T, TA) ==
  WrapSchema(Ty2("BTreeMap", Map_pair(T).a[1], Map_pair(T).a[2]),
             Ty2("BTreeMap", TA.a[1], TA.a[2]))

\* map_first_last_wins_schema!: MapFirstKeyWins and MapPreventDuplicates
map_first_last_wins_forward_target(T, TA) ==
  Ty2("BTreeMap", WrapSchema(T.a[1], TA.a[1]), WrapSchema(T.a[2], TA.a[2]))

---------------------------------------------------------------------------
(* mod timespan: the classification of a (target type, wire format) pair.  *)

TimespanSchemaTarget_impls ==
  {<<Ty0("Duration"), Ty0("u64")>>, <<Ty0("Duration"), Ty0("f64")>>,
   <<Ty0("Duration"), Ty0("String")>>,
   <<Ty0("SystemTime"), Ty0("i64")>>, <<Ty0("SystemTime"), Ty0("f64")>>,
   <<Ty0("SystemTime"), Ty0("String")>>}

is_string(F) == F.k = "String"

TimespanSchemaTarget_SIGNED(T, F) == IF T.k = "Duration" THEN FALSE ELSE TRUE

\* Variant: is_string! never takes its String arm.
TimespanSchemaTarget_STRING_never(T, F) == FALSE

TimespanSchemaTarget_STRING(T, F) ==
  IF T.k = "Duration" THEN (IF F.k = "String" THEN TRUE ELSE FALSE) ELSE is_string(F)

\* impl JsonSchemaAs<T> for Timespan<F, Strict>
Timespan_Strict_forward_target(T, TA) == TA.a[1]

flexible_timespan_schema(signed, is_str) ==
  LET number0 == [SchemaObject_default EXCEPT
                    !.instance_type = <<"number">>,
                    !.number = IF ~signed
                               THEN Some([NumberValidation_default EXCEPT
                                            !.minimum = Some(0)])
                               ELSE None]
      string0 == [SchemaObject_default EXCEPT !.instance_type = <<"string">>]
      number == IF is_str
                THEN [number0 EXCEPT !.metadata =
                        Some([SchemaObject_metadata(number0) EXCEPT !.write_only = TRUE])]
                ELSE number0
      string == IF is_str
                THEN string0
                ELSE [string0 EXCEPT !.metadata =
                        Some([SchemaObject_metadata(string0) EXCEPT !.write_only = TRUE])]
  IN [SchemaObject_default EXCEPT
        !.subschemas = Some([SubschemaValidation_default EXCEPT
                               !.one_of = Some(<<number, string>>)])]

\* impl JsonSchemaAs<T> for Timespan<F, Flexible>
Timespan_Flexible_schema_name(T, TA) ==
  IF TimespanSchemaTarget_STRING(T, TA.a[1]) THEN "FlexibleStringTimespan"
  ELSE "FlexibleTimespan"

Timespan_Flexible_schema_id(T, TA) ==
  IF TimespanSchemaTarget_STRING(T, TA.a[1]) THEN "serde_with::FlexibleStringTimespan"
  ELSE "serde_with::FlexibleTimespan"

Timespan_Flexible_json_schema(T, TA, g) ==
  Result(flexible_timespan_schema(TimespanSchemaTarget_SIGNED(T, TA.a[1]),
                                  TimespanSchemaTarget_STRING(T, TA.a[1])), g)

Timespan_Flexible_is_referenceable == FALSE

\* forward_duration_schema!($ty), invoked for the sixteen adapters
forward_duration_schema_kinds ==
  {"DurationSeconds", "DurationMilliSeconds", "DurationMicroSeconds",
   "DurationNanoSeconds", "DurationSecondsWithFrac", "DurationMilliSecondsWithFrac",
   "DurationMicroSecondsWithFrac", "DurationNanoSecondsWithFrac",
   "TimestampSeconds", "TimestampMilliSeconds", "TimestampMicroSeconds",
   "TimestampNanoSeconds", "TimestampSecondsWithFrac", "TimestampMilliSecondsWithFrac",
   "TimestampMicroSecondsWithFrac", "TimestampNanoSecondsWithFrac"}

\* Variant: the Flexible impl forwards to the Strict timespan as well.
forward_duration_schema_target_strict_only(T, TA) ==
  WrapSchema(T, Ty2("Timespan", TA.a[1], Strict))

forward_duration_schema_target(T, TA) ==
  IF TA.a[2] = Strict
  THEN WrapSchema(T, Ty2("Timespan", TA.a[1], Strict))
  ELSE WrapSchema(T, Ty2("Timespan", TA.a[1], Flexible))

---------------------------------------------------------------------------
(* The impls that build their document.                                    *)

\* impl JsonSchemaAs<[T; N]> for [TA; N]
Array_schema_name(T, TA) ==
  "[" \o JsonSchema_schema_name(WrapSchema(T.a[1], TA.a[1])) \o "; "
      \o usize_to_string(TA.n) \o "]"

Array_schema_id(T, TA) ==
  "[" \o JsonSchema_schema_id(WrapSchema(T.a[1], TA.a[1])) \o "; "
      \o usize_to_string(TA.n) \o "]"

\* Variant: the two components of the Err arm in the other order.
Array_max_min_swapped(N) ==
  IF usize_try_into_u32(N) # {}
  THEN [max |-> usize_try_into_u32(N), min |-> usize_try_into_u32(N)]
  ELSE [max |-> Some(u32_MAX), min |-> None]

\* let (max, min) = match N.try_into() { .. }
Array_max_min(N) ==
  IF usize_try_into_u32(N) # {}
  THEN [max |-> usize_try_into_u32(N), min |-> usize_try_into_u32(N)]
  ELSE [max |-> None, min |-> Some(u32_MAX)]

\* Variant: the item schema is asked from a generator of its own, which is
\* then handed back in place of the caller's.
Array_json_schema_own_generator(T, TA, g, d) ==
  LET mm == Array_max_min(TA.n)
      item == subschema_for(WrapSchema(T.a[1], TA.a[1]), SchemaGenerator_default, d)
  IN Result([SchemaObject_default EXCEPT
               !.instance_type = <<"array">>,
               !.array = Some([ArrayValidation_default EXCEPT
                                 !.items = Some(Single(item.schema)),
                                 !.max_items = mm.max,
                                 !.min_items = mm.min])],
            item.gen)

Array_json_schema(T, TA, g, d) ==
  LET mm == Array_max_min(TA.n)
      item == subschema_for(WrapSchema(T.a[1], TA.a[1]), g, d)
  IN Result([SchemaObject_default EXCEPT
               !.instance_type = <<"array">>,
               !.array = Some([ArrayValidation_default EXCEPT
                                 !.items = Some(Single(item.schema)),
                                 !.max_items = mm.max,
                                 !.min_items = mm.min])],
            item.gen)

\* Variant: the array impl keeps the provided is_referenceable.
Array_is_referenceable_true == TRUE

Array_is_referenceable == FALSE

\* impl JsonSchemaAs<bool> for BoolFromInt<Strict>
BoolFromInt_Strict_schema_name == "BoolFromInt<Strict>"

BoolFromInt_Strict_schema_id == "serde_with::BoolFromInt<Strict>"

\* Variant: the strict document without its bounds.
BoolFromInt_Strict_json_schema_unbounded(g) ==
  Result([SchemaObject_default EXCEPT !.instance_type = <<"integer">>], g)

BoolFromInt_Strict_json_schema(g) ==
  Result([SchemaObject_default EXCEPT
            !.instance_type = <<"integer">>,
            !.number = Some([NumberValidation_default EXCEPT
                               !.minimum = Some(0), !.maximum = Some(1)])], g)

BoolFromInt_Strict_is_referenceable == FALSE

\* impl JsonSchemaAs<bool> for BoolFromInt<Flexible>
BoolFromInt_Flexible_schema_name == "BoolFromInt<Flexible>"

BoolFromInt_Flexible_schema_id == "serde_with::BoolFromInt<Flexible>"

BoolFromInt_Flexible_json_schema(g) ==
  Result([SchemaObject_default EXCEPT !.instance_type = <<"integer">>], g)

BoolFromInt_Flexible_is_referenceable == FALSE

\* impl JsonSchemaAs<Vec<u8>> for BytesOrString
BytesOrString_schema_name == "BytesOrString"

BytesOrString_schema_id == "serde_with::BytesOrString"

\* Variant: the string alternative without its write-only mark.
BytesOrString_json_schema_unmarked(g, d) ==
  LET bytes == subschema_for(Ty1("Vec", Ty0("u8")), g, d)
      string == [SchemaObject_default EXCEPT !.instance_type = <<"string">>]
  IN Result([SchemaObject_default EXCEPT
               !.subschemas = Some([SubschemaValidation_default EXCEPT
                                      !.any_of = Some(<<bytes.schema, string>>)])],
            bytes.gen)

BytesOrString_json_schema(g, d) ==
  LET bytes == subschema_for(Ty1("Vec", Ty0("u8")), g, d)
      string == [SchemaObject_default EXCEPT
                   !.instance_type = <<"string">>,
                   !.metadata = Some([Metadata_default EXCEPT !.write_only = TRUE])]
  IN Result([SchemaObject_default EXCEPT
               !.subschemas = Some([SubschemaValidation_default EXCEPT
                                      !.any_of = Some(<<bytes.schema, string>>)])],
            bytes.gen)

BytesOrString_is_referenceable == FALSE

\* impl JsonSchemaAs<T> for SetLastValueWins<TA>
SetLastValueWins_schema_id(T, TA) ==
  "serde_with::SetLastValueWins<" \o JsonSchema_schema_id(WrapSchema(T, TA.a[1])) \o ">"

SetLastValueWins_schema_name(T, TA) ==
  "SetLastValueWins<" \o JsonSchema_schema_name(WrapSchema(T, TA.a[1])) \o ">"

\* Variant: the constraint is left in place.
clear_unique_items_kept(schema) == schema

\* if let Some(array) = &mut schema.array { array.unique_items = None; }
clear_unique_items(schema) ==
  IF schema.array # None
  THEN [schema EXCEPT !.array =
          {[array EXCEPT !.unique_items = None] : array \in schema.array}]
  ELSE schema

\* Variant: the inner document is asked from the generator.
SetLastValueWins_json_schema_by_request(T, TA, g, d) ==
  LET inner == subschema_for(WrapSchema(T, TA.a[1]), g, d)
      schema == Schema_into_object(inner.schema)
  IN Result(clear_unique_items(schema), inner.gen)

SetLastValueWins_json_schema(T, TA, g, d) ==
  LET inner == JsonSchema_json_schema(WrapSchema(T, TA.a[1]), g, d)
      schema == Schema_into_object(inner.schema)
  IN Result(clear_unique_items(schema), inner.gen)

SetLastValueWins_is_referenceable == FALSE

---------------------------------------------------------------------------
(* trait JsonSchemaAs: the provided methods, and two implementors outside  *)
(* the module that rely on them: PositiveInt of the trait's documentation  *)
(* and Tree, an adapter whose document asks for its own binding.           *)

\* Variant: the provided is_referenceable answers false.
JsonSchemaAs_default_is_referenceable_false == FALSE

JsonSchemaAs_default_is_referenceable == TRUE

JsonSchemaAs_default_schema_id(schema_name) == schema_name

PositiveInt_schema_name == "PositiveInt"

PositiveInt_json_schema(g, d) ==
  LET inner == JsonSchema_json_schema(Ty0("i32"), g, d)
      schema == Schema_into_object(inner.schema)
      number == IF schema.number = None THEN NumberValidation_default
                ELSE CHOOSE nv \in schema.number : TRUE
  IN Result([schema EXCEPT !.number = Some([number EXCEPT !.minimum = Some(0)])],
            inner.gen)

Tree_schema_name == "Tree"

Tree_json_schema(T, TA, g, d) ==
  LET child == subschema_for(WrapSchema(T, TA), g, d)
  IN Result([SchemaObject_default EXCEPT
               !.instance_type = <<"array">>,
               !.array = Some([ArrayValidation_default EXCEPT
                                 !.items = Some(Single(child.schema))])],
            child.gen)

---------------------------------------------------------------------------
(* Selection of the impl of JsonSchemaAs<T> for TA.                        *)

forward_kinds ==
  std_forward_kinds \cup {"Tuple", "Unit"} \cup serde_with_forward_kinds
    \cup {"Map", "MapFirstKeyWins", "MapPreventDuplicates"}
    \cup forward_duration_schema_kinds

is_forward(TA) ==
  \/ TA.k \in forward_kinds
  \/ TA.k = "Timespan" /\ TA.a[2] = Strict

forward_target(T, TA) ==
  CASE TA.k \in std_forward_kinds -> std_forward_target(T, TA)
    [] TA.k \in {"Tuple", "Unit"} -> tuple_forward_target(T, TA)
    [] TA.k \in serde_with_forward_kinds -> serde_with_forward_target(T, TA)
    [] TA.k = "Map" -> map_forward_target(T, TA)
    [] TA.k \in {"MapFirstKeyWins", "MapPreventDuplicates"} ->
         map_first_last_wins_forward_target(T, TA)
    [] TA.k = "Timespan" -> Timespan_Strict_forward_target(T, TA)
    [] TA.k \in forward_duration_schema_kinds -> forward_duration_schema_target(T, TA)

JsonSchemaAs_schema_name(T, TA) ==
  CASE is_forward(TA) -> forward_schema_schema_name(forward_target(T, TA))
    [] TA.k = "Array" -> Array_schema_name(T, TA)
    [] TA.k = "BoolFromInt" /\ TA.a[1] = Strict -> BoolFromInt_Strict_schema_name
    [] TA.k = "BoolFromInt" /\ TA.a[1] = Flexible -> BoolFromInt_Flexible_schema_name
    [] TA.k = "BytesOrString" -> BytesOrString_schema_name
    [] TA.k = "SetLastValueWins" -> SetLastValueWins_schema_name(T, TA)
    [] TA.k = "Timespan" /\ TA.a[2] = Flexible -> Timespan_Flexible_schema_name(T, TA)
    [] TA.k = "PositiveInt" -> PositiveInt_schema_name
    [] TA.k = "Tree" -> Tree_schema_name

JsonSchemaAs_schema_id(T, TA) ==
  CASE is_forward(TA) -> forward_schema_schema_id(forward_target(T, TA))
    [] TA.k = "Array" -> Array_schema_id(T, TA)
    [] TA.k = "BoolFromInt" /\ TA.a[1] = Strict -> BoolFromInt_Strict_schema_id
    [] TA.k = "BoolFromInt" /\ TA.a[1] = Flexible -> BoolFromInt_Flexible_schema_id
    [] TA.k = "BytesOrString" -> BytesOrString_schema_id
    [] TA.k = "SetLastValueWins" -> SetLastValueWins_schema_id(T, TA)
    [] TA.k = "Timespan" /\ TA.a[2] = Flexible -> Timespan_Flexible_schema_id(T, TA)
    [] TA.k = "PositiveInt" -> JsonSchemaAs_default_schema_id(PositiveInt_schema_name)
    [] TA.k = "Tree" -> JsonSchemaAs_default_schema_id(Tree_schema_name)

JsonSchemaAs_json_schema(T, TA, g, d) ==
  CASE is_forward(TA) -> forward_schema_json_schema(forward_target(T, TA), g, d)
    [] TA.k = "Array" -> Array_json_schema(T, TA, g, d)
    [] TA.k = "BoolFromInt" /\ TA.a[1] = Strict -> BoolFromInt_Strict_json_schema(g)
    [] TA.k = "BoolFromInt" /\ TA.a[1] = Flexible -> BoolFromInt_Flexible_json_schema(g)
    [] TA.k = "BytesOrString" -> BytesOrString_json_schema(g, d)
    [] TA.k = "SetLastValueWins" -> SetLastValueWins_json_schema(T, TA, g, d)
    [] TA.k = "Timespan" /\ TA.a[2] = Flexible -> Timespan_Flexible_json_schema(T, TA, g)
    [] TA.k = "PositiveInt" -> PositiveInt_json_schema(g, d)
    [] TA.k = "Tree" -> Tree_json_schema(T, TA, g, d)

JsonSchemaAs_is_referenceable(T, TA) ==
  CASE is_forward(TA) -> forward_schema_is_referenceable(forward_target(T, TA))
    [] TA.k = "Array" -> Array_is_referenceable
    [] TA.k = "BoolFromInt" /\ TA.a[1] = Strict -> BoolFromInt_Strict_is_referenceable
    [] TA.k = "BoolFromInt" /\ TA.a[1] = Flexible -> BoolFromInt_Flexible_is_referenceable
    [] TA.k = "BytesOrString" -> BytesOrString_is_referenceable
    [] TA.k = "SetLastValueWins" -> SetLastValueWins_is_referenceable
    [] TA.k = "Timespan" /\ TA.a[2] = Flexible -> Timespan_Flexible_is_referenceable
    [] TA.k \in {"PositiveInt", "Tree"} -> JsonSchemaAs_default_is_referenceable

\* impl JsonSchema for WrapSchema<T, TA>
WrapSchema_schema_name(T, TA) == JsonSchemaAs_schema_name(T, TA)

WrapSchema_schema_id(T, TA) == JsonSchemaAs_schema_id(T, TA)

WrapSchema_json_schema(T, TA, g, d) == JsonSchemaAs_json_schema(T, TA, g, d)

WrapSchema_is_referenceable(T, TA) == JsonSchemaAs_is_referenceable(T, TA)

---------------------------------------------------------------------------
(* The describable types the adapters forward to: schemars' own impls of   *)
(* JsonSchema for primitives, containers and serde_json::Value, and three  *)
(* types of the consumer: Point (a struct), Node (a struct with a field    *)
(* children: Vec<Node> adapted as Vec<Same>) and Alias (whose json_schema  *)
(* answers with the generator's sub-schema of Point, a reference).         *)

simple_kinds == {"String", "bool", "i32", "i64", "u8", "u64", "f64", "Unit"}

simple_name(t) ==
  CASE t.k = "String" -> "String"
    [] t.k = "bool" -> "Boolean"
    [] t.k = "i32" -> "int32"
    [] t.k = "i64" -> "int64"
    [] t.k = "u8" -> "uint8"
    [] t.k = "u64" -> "uint64"
    [] t.k = "f64" -> "double"
    [] t.k = "Unit" -> "Null"

simple_json_schema(t) ==
  CASE t.k = "String" -> [SchemaObject_default EXCEPT !.instance_type = <<"string">>]
    [] t.k = "bool" -> [SchemaObject_default EXCEPT !.instance_type = <<"boolean">>]
    [] t.k = "Unit" -> [SchemaObject_default EXCEPT !.instance_type = <<"null">>]
    [] t.k \in {"i32", "i64"} ->
         [SchemaObject_default EXCEPT !.instance_type = <<"integer">>,
                                      !.format = Some(simple_name(t))]
    [] t.k \in {"u8", "u64"} ->
         [SchemaObject_default EXCEPT
            !.instance_type = <<"integer">>,
            !.format = Some(simple_name(t)),
            !.number = Some([NumberValidation_default EXCEPT !.minimum = Some(0)])]
    [] t.k = "f64" ->
         [SchemaObject_default EXCEPT !.instance_type = <<"number">>,
                                      !.format = Some(simple_name(t))]

seq_kinds == {"Vec", "VecDeque", "LinkedList", "BinaryHeap", "Slice"}

set_kinds == {"BTreeSet", "HashSet"}

map_kinds == {"BTreeMap", "HashMap"}

wrapper_kinds == {"Ref", "RefMut", "Box", "Rc", "Arc", "Cow"}

seq_json_schema(t, g, d) ==
  LET item == subschema_for(t.a[1], g, d)
  IN Result([SchemaObject_default EXCEPT
               !.instance_type = <<"array">>,
               !.array = Some([ArrayValidation_default EXCEPT
                                 !.items = Some(Single(item.schema))])],
            item.gen)

set_json_schema(t, g, d) ==
  LET item == subschema_for(t.a[1], g, d)
  IN Result([SchemaObject_default EXCEPT
               !.instance_type = <<"array">>,
               !.array = Some([ArrayValidation_default EXCEPT
                                 !.items = Some(Single(item.schema)),
                                 !.unique_items = Some(TRUE)])],
            item.gen)

map_json_schema(t, g, d) ==
  LET value == subschema_for(t.a[2], g, d)
  IN Result([SchemaObject_default EXCEPT
               !.instance_type = <<"object">>,
               !.object = Some([ObjectValidation_default EXCEPT
                                  !.additional_properties = Some(value.schema)])],
            value.gen)

tuple_json_schema(t, g, d) ==
  LET items == subschemas_for(t.a, g, d)
  IN Result([SchemaObject_default EXCEPT
               !.instance_type = <<"array">>,
               !.array = Some([ArrayValidation_default EXCEPT
                                 !.items = Some(Vec_of(items.schemas)),
                                 !.max_items = Some(u32(Len(t.a))),
                                 !.min_items = Some(u32(Len(t.a)))])],
            items.gen)

add_null_type(instance_type) ==
  IF \E i \in 1..Len(instance_type) : instance_type[i] = "null" THEN instance_type
  ELSE Append(instance_type, "null")

Option_json_schema(t, g, d) ==
  LET inner == subschema_for(t.a[1], g, d)
      schema == inner.schema
      null == simple_json_schema(Ty0("Unit"))
  IN Result(CASE schema.tag = "Bool" /\ schema.bool -> schema
              [] schema.tag = "Bool" /\ ~schema.bool -> null
              [] schema.tag = "Object" /\ schema.instance_type # <<>> ->
                   [schema EXCEPT !.instance_type = add_null_type(@)]
              [] OTHER ->
                   [SchemaObject_default EXCEPT
                      !.subschemas = Some([SubschemaValidation_default EXCEPT
                                             !.any_of = Some(<<schema, null>>)])],
            inner.gen)

Point_json_schema(g, d) ==
  LET x == subschema_for(Ty0("i64"), g, d)
  IN Result([SchemaObject_default EXCEPT
               !.instance_type = <<"object">>,
               !.object = Some([ObjectValidation_default EXCEPT
                                  !.properties = <<[name |-> "x", schema |-> x.schema]>>])],
            x.gen)

Node_json_schema(g, d) ==
  LET children == subschema_for(WrapSchema(Ty1("Vec", Ty0("Node")),
                                           Ty1("Vec", Ty0("Same"))), g, d)
  IN Result([SchemaObject_default EXCEPT
               !.instance_type = <<"object">>,
               !.object = Some([ObjectValidation_default EXCEPT
                                  !.properties = <<[name |-> "children",
                                                    schema |-> children.schema]>>])],
            children.gen)

Alias_json_schema(g, d) == subschema_for(Ty0("Point"), g, d)

impl_JsonSchema_schema_name(t) ==
  CASE t.k = "WrapSchema" -> WrapSchema_schema_name(t.a[1], t.a[2])
    [] t.k \in simple_kinds -> simple_name(t)
    [] t.k \in seq_kinds -> "Array_of_" \o JsonSchema_schema_name(t.a[1])
    [] t.k \in set_kinds -> "Set_of_" \o JsonSchema_schema_name(t.a[1])
    [] t.k \in map_kinds -> "Map_of_" \o JsonSchema_schema_name(t.a[2])
    [] t.k = "Option" -> "Nullable_" \o JsonSchema_schema_name(t.a[1])
    [] t.k \in wrapper_kinds -> JsonSchema_schema_name(t.a[1])
    [] t.k = "Tuple" ->
         "Tuple_of_" \o Join([i \in 1..Len(t.a) |-> JsonSchema_schema_name(t.a[i])],
                             "_and_")
    [] t.k = "Value" -> "AnyValue"
    [] t.k \in {"Point", "Node", "Alias"} -> t.k

impl_JsonSchema_schema_id(t) ==
  CASE t.k = "WrapSchema" -> WrapSchema_schema_id(t.a[1], t.a[2])
    [] t.k \in simple_kinds -> simple_name(t)
    [] t.k \in seq_kinds -> "[" \o JsonSchema_schema_id(t.a[1]) \o "]"
    [] t.k \in set_kinds -> "Set<" \o JsonSchema_schema_id(t.a[1]) \o ">"
    [] t.k \in map_kinds -> "Map<" \o JsonSchema_schema_id(t.a[2]) \o ">"
    [] t.k = "Option" -> "Option<" \o JsonSchema_schema_id(t.a[1]) \o ">"
    [] t.k \in wrapper_kinds -> JsonSchema_schema_id(t.a[1])
    [] t.k = "Tuple" ->
         "(" \o Join([i \in 1..Len(t.a) |-> JsonSchema_schema_id(t.a[i])], ",") \o ")"
    [] t.k = "Value" -> "AnyValue"
    [] t.k \in {"Point", "Node", "Alias"} -> "app::" \o t.k

impl_JsonSchema_is_referenceable(t) ==
  CASE t.k = "WrapSchema" -> WrapSchema_is_referenceable(t.a[1], t.a[2])
    [] t.k \in wrapper_kinds -> JsonSchema_is_referenceable(t.a[1])
    [] t.k \in {"Point", "Node"} -> TRUE
    [] OTHER -> FALSE

impl_JsonSchema_json_schema(t, g, d) ==
  CASE t.k = "WrapSchema" -> WrapSchema_json_schema(t.a[1], t.a[2], g, d)
    [] t.k \in simple_kinds -> Result(simple_json_schema(t), g)
    [] t.k \in seq_kinds -> seq_json_schema(t, g, d)
    [] t.k \in set_kinds -> set_json_schema(t, g, d)
    [] t.k \in map_kinds -> map_json_schema(t, g, d)
    [] t.k = "Option" -> Option_json_schema(t, g, d)
    [] t.k \in wrapper_kinds -> JsonSchema_json_schema(t.a[1], g, d)
    [] t.k = "Tuple" -> tuple_json_schema(t, g, d)
    [] t.k = "Value" -> Result(Schema_Bool(TRUE), g)
    [] t.k = "Point" -> Point_json_schema(g, d)
    [] t.k = "Node" -> Node_json_schema(g, d)
    [] t.k = "Alias" -> Alias_json_schema(g, d)

Call(m, t, g, d) ==
  CASE m = "schema_name" -> impl_JsonSchema_schema_name(t)
    [] m = "schema_id" -> impl_JsonSchema_schema_id(t)
    [] m = "is_referenceable" -> impl_JsonSchema_is_referenceable(t)
    [] m = "json_schema" -> impl_JsonSchema_json_schema(t, g, d)
    [] m = "subschema_for" -> SchemaGenerator_subschema_for(t, g, d)

---------------------------------------------------------------------------
(* The bindings of the model: every impl of the module, over a few value   *)
(* types, each binding respecting the impl's trait bounds.                 *)

Same == Ty0("Same")

Binding(T, TA) == [T |-> T, TA |-> TA]

Proxy(b) == WrapSchema(b.T, b.TA)

\* Lengths N of fixed-size arrays: 0, 1, 2^16, u32::MAX, u32::MAX + 1, usize::MAX.
ArrayLens ==
  {usize(0), usize(1), <<0, 1, 0, 0>>, <<65535, 65535, 0, 0>>, <<0, 0, 1, 0>>, usize_MAX}

\* Bindings through Same: the value type is itself describable.
SameBindings ==
  {Binding(T, Same) : T \in {Ty0("Point"), Ty0("Node"), Ty0("Value"), Ty0("Alias"),
                             Ty1("BTreeSet", Ty0("i64")), Ty1("Vec", Ty0("i64"))}}

FlexibleF64 == Ty2("DurationSeconds", Ty0("f64"), Flexible)

InnerBindings ==
  SameBindings \cup
  {Binding(Ty0("bool"), Ty1("BoolFromInt", Strict)),
   Binding(Ty0("i32"), Ty0("PositiveInt")),
   Binding(Ty0("Rose"), Ty0("Tree")),
   Binding(Ty0("Duration"), FlexibleF64),
   Binding(Ty0("SystemTime"), FlexibleF64)}

TimespanBindings ==
  {Binding(p[1], Ty2(k, p[2], S)) :
     p \in TimespanSchemaTarget_impls,
     k \in forward_duration_schema_kinds \cup {"Timespan"},
     S \in {Strict, Flexible}}

LeafBindings ==
  InnerBindings \cup TimespanBindings \cup
  {Binding(Ty0("bool"), Ty1("BoolFromInt", Flexible)),
   Binding(Ty0("i64"), Ty0("DisplayFromStr")),
   Binding(Ty1("Cow", Ty0("String")), Ty0("BorrowCow")),
   Binding(Ty1("Vec", Ty0("u8")), Ty0("Bytes")),
   Binding(Ty1("Vec", Ty0("u8")), Ty0("BytesOrString")),
   Binding(Ty0("i64"), Ty1("FromInto", Ty0("Point"))),
   Binding(Ty0("i64"), Ty1("FromIntoRef", Ty0("String"))),
   Binding(Ty0("i64"), Ty1("TryFromInto", Ty0("Node"))),
   Binding(Ty0("i64"), Ty1("TryFromIntoRef", Ty1("Vec", Ty0("Point")))),
   Binding(Ty1("Vec", Ty0("String")),
           Ty2("StringWithSeparator", Ty0("CommaSeparator"), Ty0("String"))),
   Binding(Ty0("Unit"), Ty0("Unit"))}

FlexibleBool == Binding(Ty0("bool"), Ty1("BoolFromInt", Flexible))

\* The impls generic over an inner adapter, applied to the inner binding b.
Over(b) ==
  {Binding(Ty1(k, b.T), Ty1(k, b.TA)) :
     k \in {"Ref", "RefMut", "Option", "Box", "Rc", "Arc", "Vec", "VecDeque",
            "BTreeSet"}}
  \cup {Binding(b.T, Ty1(k, b.TA)) :
          k \in {"DefaultOnError", "DefaultOnNull", "SetLastValueWins",
                 "SetPreventDuplicates"}}
  \cup {Binding(Ty1("Vec", b.T), Ty1("VecSkipError", b.TA))}
  \cup {Binding(ArrayTy(b.T, N), ArrayTy(b.TA, N)) : N \in ArrayLens}
  \cup {Binding(TupleTy(<<b.T>>), TupleTy(<<b.TA>>)),
        Binding(TupleTy(<<b.T, FlexibleBool.T>>), TupleTy(<<b.TA, FlexibleBool.TA>>))}
  \cup {Binding(Ty2(k, Ty0("String"), b.T), Ty2(k, Same, b.TA)) :
          k \in {"BTreeMap", "HashMap"}}
  \cup {Binding(Ty2(m, Ty0("String"), b.T), Ty2(k, Same, b.TA)) :
          m \in {"BTreeMap", "HashMap"},
          k \in {"MapFirstKeyWins", "MapPreventDuplicates"}}

\* impl JsonSchemaAs<T> for HashSet<TA, S> asks TA: JsonSchemaAs<T> of the
\* whole value type T, which Same meets for a describable T.
HashSetBindings ==
  {Binding(Ty1("HashSet", b.T), Ty1("HashSet", Same)) : b \in SameBindings}

DeepBindings ==
  UNION {Over(b) : b \in {Binding(Ty0("Point"), Ty1("DefaultOnNull", Same)),
                          Binding(Ty1("Vec", Ty0("Node")), Ty1("Vec", Same)),
                          Binding(Ty1("BTreeSet", Ty0("i64")),
                                  Ty1("SetLastValueWins", Same))}}

\* The containers of pairs Map<KA, VA> is implemented for.
MapContainers(kv) ==
  {Ty1(k, kv) : k \in {"Slice", "Vec", "VecDeque", "LinkedList", "BinaryHeap",
                        "BTreeSet", "HashSet"}}
  \cup {Ty1("Box", Ty1("Slice", kv))}
  \cup {ArrayTy(kv, N) : N \in ArrayLens}

\* Key and value bindings of the Map<KA, VA> bindings.
MapEntries ==
  {<<Binding(Ty0("String"), Same), Binding(Ty0("Point"), Same)>>,
   <<Binding(Ty0("String"), Same), Binding(Ty0("bool"), Ty1("BoolFromInt", Strict))>>,
   <<Binding(Ty0("i64"), Ty0("DisplayFromStr")), Binding(Ty0("SystemTime"), FlexibleF64)>>}

MapBinding(c, e) == Binding(c, Ty2("Map", e[1].TA, e[2].TA))

MapBindings ==
  UNION {{MapBinding(c, e) : c \in MapContainers(TupleTy(<<e[1].T, e[2].T>>))} :
           e \in MapEntries}

Bindings ==
  LeafBindings \cup UNION {Over(b) : b \in InnerBindings} \cup HashSetBindings
    \cup DeepBindings \cup MapBindings

\* The describable types a consumer asks the generator for.
HostTypes ==
  {Ty0("Point"), Ty0("Node"), Ty0("Alias"), Ty0("Value"), Ty0("String"),
   Ty1("Option", Ty0("Node")), Ty1("Vec", Ty0("u8"))}

Requests ==
  HostTypes \cup
  {Proxy(b) : b \in
     InnerBindings
     \cup {Binding(Ty0("bool"), Ty1("BoolFromInt", Flexible)),
           Binding(Ty1("Vec", Ty0("u8")), Ty0("BytesOrString")),
           Binding(Ty0("i64"), Ty1("FromInto", Ty0("Point"))),
           Binding(Ty0("SystemTime"),
                   Ty2("TimestampNanoSecondsWithFrac", Ty0("String"), Flexible)),
           Binding(Ty0("Duration"), Ty2("DurationMilliSeconds", Ty0("u64"), Strict)),
           Binding(Ty0("SystemTime"), Ty2("TimestampSeconds", Ty0("i64"), Strict)),
           Binding(ArrayTy(Ty0("Point"), <<0, 0, 1, 0>>), ArrayTy(Same, <<0, 0, 1, 0>>)),
           Binding(ArrayTy(Ty0("bool"), usize(2)),
                   ArrayTy(Ty1("BoolFromInt", Strict), usize(2))),
           Binding(Ty1("BTreeSet", Ty0("i64")), Ty1("SetLastValueWins", Same)),
           Binding(Ty0("Value"), Ty1("SetLastValueWins", Same)),
           Binding(Ty0("Point"), Ty1("SetLastValueWins", Same)),
           Binding(Ty0("Point"), Ty1("DefaultOnError", Ty1("DefaultOnNull", Same))),
           Binding(Ty0("Alias"), Ty1("DefaultOnError", Same)),
           Binding(Ty1("Vec", TupleTy(<<Ty0("String"), Ty0("bool")>>)),
                   Ty2("Map", Same, Ty1("BoolFromInt", Strict))),
           Binding(Ty1("Box", Ty1("Slice", TupleTy(<<Ty0("String"), Ty0("Point")>>))),
                   Ty2("Map", Same, Same))}}

---------------------------------------------------------------------------
(* One generation session.                                                 *)

Init ==
  /\ gen = SchemaGenerator_default
  /\ last = [op |-> "new", t |-> Ty0("Unit"), schema |-> Schema_Bool(TRUE)]

\* SchemaGenerator::default(): a new session replaces the old one.
NewSession ==
  /\ last.op # "new"
  /\ gen' = SchemaGenerator_default
  /\ last' = [op |-> "new", t |-> Ty0("Unit"), schema |-> Schema_Bool(TRUE)]

\* gen.subschema_for::<t>()
SubschemaFor(t) ==
  LET r == subschema_for(t, gen, MaxDepth)
  IN /\ gen' = r.gen
     /\ last' = [op |-> "subschema_for", t |-> t, schema |-> r.schema]

\* <t as JsonSchema>::json_schema(&mut gen)
JsonSchemaCall(t) ==
  LET r == JsonSchema_json_schema(t, gen, MaxDepth)
  IN /\ gen' = r.gen
     /\ last' = [op |-> "json_schema", t |-> t, schema |-> r.schema]

Next ==
  \/ NewSession
  \/ \E t \in Requests : SubschemaFor(t)
  \/ \E t \in Requests : JsonSchemaCall(t)

Spec == Init /\ [][Next]_vars

---------------------------------------------------------------------------
(* Properties.  The four operations of a describable type are taken in the *)
(* current generator state.                                                *)

Ops(t) ==
  [schema_name |-> JsonSchema_schema_name(t),
   schema_id |-> JsonSchema_schema_id(t),
   is_referenceable |-> JsonSchema_is_referenceable(t),
   json_schema |-> JsonSchema_json_schema(t, gen, MaxDepth)]

Doc(t) == JsonSchema_json_schema(t, gen, MaxDepth).schema

\* The type a chain of forwarding impls ends at.
RECURSIVE FinalTarget(_)
FinalTarget(t) ==
  IF t.k = "WrapSchema" /\ is_forward(t.a[2])
  THEN FinalTarget(forward_target(t.a[1], t.a[2]))
  ELSE t

\* The adapters claim C1 names.
C1_Adapters ==
  {"Same", "DisplayFromStr", "Bytes", "DefaultOnError", "DefaultOnNull", "FromInto",
   "FromIntoRef", "TryFromInto", "TryFromIntoRef", "SetPreventDuplicates",
   "StringWithSeparator", "VecSkipError", "Ref", "RefMut", "Option", "Box", "Rc",
   "Arc", "Vec", "VecDeque", "BTreeMap", "HashMap", "BTreeSet", "HashSet", "Tuple",
   "Unit", "MapFirstKeyWins", "MapPreventDuplicates"}

\* C1: for every forwarding adapter and every generator state, the proxy
\* Schema<T, A> has the schema_name, schema_id, is_referenceable and
\* json_schema (document and effect on the generator) of its forwarding
\* target, and of the type the chain of forwardings ends at.
C1_ForwardingEquivalence ==
  \A b \in Bindings :
    b.TA.k \in C1_Adapters =>
      /\ is_forward(b.TA)
      /\ Ops(Proxy(b)) = Ops(forward_target(b.T, b.TA))
      /\ Ops(Proxy(b)) = Ops(FinalTarget(Proxy(b)))

\* A document asked through two forwarding hops (DefaultOnError, then
\* DefaultOnNull, then Option<Schema<Point, Same>>) has been produced.
C1_Witness ==
  /\ last.op = "json_schema"
  /\ last.t = Proxy(Binding(Ty0("Point"),
                            Ty1("DefaultOnError", Ty1("DefaultOnNull", Same))))
  /\ last.schema = Doc(Ty1("Option", Ty0("Point")))
  /\ last.schema.subschemas # None
  /\ "Point" \in DOMAIN gen.definitions

\* C2: two bindings with different documents have different schema_ids
\* (equivalently: bindings sharing a schema_id produce the same document).
C2_IdInjective ==
  \A b1 \in Bindings : \A b2 \in Bindings :
    JsonSchema_schema_id(Proxy(b1)) = JsonSchema_schema_id(Proxy(b2)) =>
      Doc(Proxy(b1)) = Doc(Proxy(b2))

\* N <= u32::MAX, for a usize N.
C3_Representable(N) == N[3] = 0 /\ N[4] = 0

\* C3: the fixed-size array adapter gives an array schema whose item schema
\* is the element binding's sub-schema, with minItems = maxItems = N when N
\* fits the length type, minItems = u32::MAX and no maxItems otherwise, and
\* it is never referenceable.
C3_FixedArray ==
  \A b \in Bindings :
    b.TA.k = "Array" =>
      LET N == b.TA.n
          doc == Doc(Proxy(b))
          item == subschema_for(WrapSchema(b.T.a[1], b.TA.a[1]), gen, MaxDepth).schema
      IN /\ doc.tag = "Object" /\ doc.instance_type = <<"array">>
         /\ doc.array # None
         /\ \A a \in doc.array :
              /\ a.items = Some(Single(item))
              /\ a.unique_items = None
              /\ C3_Representable(N) =>
                   a.min_items = Some(<<N[1], N[2]>>) /\ a.max_items = a.min_items
              /\ ~C3_Representable(N) =>
                   a.min_items = Some(<<65535, 65535>>) /\ a.max_items = None
         /\ ~JsonSchema_is_referenceable(Proxy(b))

\* The array of 2^32 Points has been described: minItems u32::MAX, no maxItems.
C3_Witness ==
  /\ last.op = "subschema_for"
  /\ last.t = Proxy(Binding(ArrayTy(Ty0("Point"), <<0, 0, 1, 0>>),
                            ArrayTy(Same, <<0, 0, 1, 0>>)))
  /\ \E a \in last.schema.array :
       a.min_items = Some(u32_MAX) /\ a.max_items = None

C4_signed(T) == T.k # "Duration"

C4_defaultIsString(F) == F.k = "String"

C4_write_only(s) == \E m \in s.metadata : m.write_only

C5_BytesOrString == Binding(Ty1("Vec", Ty0("u8")), Ty0("BytesOrString"))

\* C5: the BytesOrString document is an "any of" union of exactly the
\* generator's sub-schema of Vec<u8>, not marked write-only, and a string
\* schema marked write-only; the adapter is not referenceable.
C5_BytesOrStringUnion ==
  LET doc == Doc(Proxy(C5_BytesOrString))
      bytes == subschema_for(Ty1("Vec", Ty0("u8")), gen, MaxDepth).schema
  IN /\ doc = [SchemaObject_default EXCEPT !.subschemas = doc.subschemas]
     /\ doc.subschemas # None
     /\ \A sub \in doc.subschemas :
          /\ sub.one_of = None /\ sub.not = None /\ sub.any_of # None
          /\ \A alts \in sub.any_of :
               /\ Len(alts) = 2
               /\ alts[1] = bytes
               /\ alts[1].instance_type = <<"array">>
               /\ ~C4_write_only(alts[1])
               /\ alts[2] = [SchemaObject_default EXCEPT
                               !.instance_type = <<"string">>,
                               !.metadata = Some([write_only |-> TRUE])]
     /\ ~JsonSchema_is_referenceable(Proxy(C5_BytesOrString))

\* The BytesOrString document has been produced.
C5_Witness ==
  /\ last.op = "json_schema"
  /\ last.t = Proxy(C5_BytesOrString)
  /\ \E sub \in last.schema.subschemas : \E alts \in sub.any_of :
       Len(alts) = 2 /\ C4_write_only(alts[2])

C6_Bindings == {b \in Bindings : b.TA.k = "SetLastValueWins"}

C6_Inner(b) == WrapSchema(b.T, b.TA.a[1])

C6_NamesAndPolicy(b) ==
  /\ ~JsonSchema_is_referenceable(Proxy(b))
  /\ JsonSchema_schema_name(Proxy(b)) =
       "SetLastValueWins<" \o JsonSchema_schema_name(C6_Inner(b)) \o ">"
  /\ JsonSchema_schema_id(Proxy(b)) =
       "serde_with::SetLastValueWins<" \o JsonSchema_schema_id(C6_Inner(b)) \o ">"

\* D without its top-level "unique items" constraint.
C6_WithoutUniqueItems(D) ==
  IF D.array = None THEN D
  ELSE [D EXCEPT !.array = {[a EXCEPT !.unique_items = None] : a \in D.array}]

\* C6 as stated: for every inner document D, the SetLastValueWins document
\* is D without the top-level "unique items" constraint, and D itself when D
\* has no array section; not referenceable; name and id built from the inner
\* binding's.
C6_Original ==
  \A b \in C6_Bindings :
    /\ Doc(Proxy(b)) = C6_WithoutUniqueItems(Doc(C6_Inner(b)))
    /\ C6_NamesAndPolicy(b)

\* C6 amended: the above for every inner document that is a schema object; a
\* boolean inner document is returned in its object form (true as the empty
\* schema object, false as the schema object "not: {}").
C6_LastValueWins ==
  \A b \in C6_Bindings :
    LET D == Doc(C6_Inner(b))
        R == JsonSchema_json_schema(Proxy(b), gen, MaxDepth)
    IN /\ D.tag = "Object" => R.schema = C6_WithoutUniqueItems(D)
       /\ D.tag = "Bool" /\ D.bool => R.schema = SchemaObject_default
       /\ D.tag = "Bool" /\ ~D.bool =>
            R.schema = [SchemaObject_default EXCEPT
                          !.subschemas = Some([any_of |-> None, one_of |-> None,
                                               not |-> Some(SchemaObject_default)])]
       /\ R.gen = JsonSchema_json_schema(C6_Inner(b), gen, MaxDepth).gen
       /\ C6_NamesAndPolicy(b)

\* The SetLastValueWins document of a set has been produced: the inner
\* document carries "unique items", the result does not.
C6_Witness ==
  /\ last.op = "json_schema"
  /\ last.t = Proxy(Binding(Ty1("BTreeSet", Ty0("i64")), Ty1("SetLastValueWins", Same)))
  /\ \E a \in Doc(Ty1("BTreeSet", Ty0("i64"))).array : a.unique_items = Some(TRUE)
  /\ \E a \in last.schema.array : a.unique_items = None /\ a.items # None

C7_Strict == Binding(Ty0("bool"), Ty1("BoolFromInt", Strict))

C7_Flexible == Binding(Ty0("bool"), Ty1("BoolFromInt", Flexible))

\* C7: in every generator state the strict boolean-as-integer document is
\* the integer schema with minimum 0 and maximum 1 and nothing else, the
\* flexible one is the same without the bounds, neither is referenceable,
\* and neither touches the generator.
C7_BoolFromInt ==
  LET strict == JsonSchema_json_schema(Proxy(C7_Strict), gen, MaxDepth)
      flexible == JsonSchema_json_schema(Proxy(C7_Flexible), gen, MaxDepth)
  IN /\ strict.schema =
          [SchemaObject_default EXCEPT
             !.instance_type = <<"integer">>,
             !.number = Some([minimum |-> Some(0), maximum |-> Some(1)])]
     /\ flexible.schema = [strict.schema EXCEPT !.number = None]
     /\ strict.gen = gen /\ flexible.gen = gen
     /\ ~JsonSchema_is_referenceable(Proxy(C7_Strict))
     /\ ~JsonSchema_is_referenceable(Proxy(C7_Flexible))

\* The strict document has been produced in a session that already holds
\* definitions.
C7_Witness ==
  /\ last.op = "subschema_for"
  /\ last.t = Proxy(C7_Strict)
  /\ last.schema.number = Some([minimum |-> Some(0), maximum |-> Some(1)])
  /\ gen.definitions # <<>>

\* The bindings whose synthesis asks for their own schema: the adapter Tree,
\* the struct Node, and Node through Same.
C8_Recursive ==
  {Proxy(Binding(Ty0("Rose"), Ty0("Tree"))), Ty0("Node"),
   Proxy(Binding(Ty0("Node"), Same))}

C8_Registered(t) == JsonSchema_schema_id(t) \in DOMAIN gen.schema_id_to_name

\* The sub-schemas in nested positions of a document: array items, properties.
C8_Nested(doc) ==
  UNION {{it.list[i] : i \in 1..Len(it.list)} :
           it \in UNION {a.items : a \in doc.array}}
  \cup UNION {{o.properties[i].schema : i \in 1..Len(o.properties)} : o \in doc.object}

\* C8: a self-referential binding that declares itself referenceable (Tree
\* does so by the trait's provided method) is answered in finitely many
\* steps; once its identity is registered every request returns the by-name
\* reference and leaves the generator as it is, so synthesis runs at most
\* once per identity in a session; and the stored definition holds the
\* self-reference as a reference.
C8_RecursionTerminates ==
  /\ ~gen.diverged
  /\ gen.pending_schema_ids = {}
  /\ \A id \in DOMAIN gen.synthesis_runs : gen.synthesis_runs[id] <= 1
  /\ \A t \in C8_Recursive :
       LET r == subschema_for(t, gen, MaxDepth)
           id == JsonSchema_schema_id(t)
           name == r.gen.schema_id_to_name[id]
       IN /\ JsonSchema_is_referenceable(t)
          /\ ~r.gen.diverged
          /\ r.schema = Schema_new_ref("#/definitions/" \o name)
          /\ r.gen.synthesis_runs[id] = 1
          /\ C8_Registered(t) => r.gen = gen
          /\ r.gen.definitions[name].tag = "Object"
          /\ r.gen.definitions[name].reference = None
          /\ \A n1 \in C8_Nested(r.gen.definitions[name]) :
               /\ n1.tag = "Object"
               /\ \/ n1 = r.schema
                  \/ \E n2 \in C8_Nested(n1) : n2 = r.schema
  /\ (last.op = "subschema_for" /\ last.t \in C8_Recursive) =>
       /\ Schema_is_ref(last.schema)
       /\ C8_Registered(last.t)

\* The recursive adapter Tree has been requested: the answer is the
\* reference, the definition's items are that same reference, and its
\* synthesis ran once.
C8_Witness ==
  /\ last.op = "subschema_for"
  /\ last.t = Proxy(Binding(Ty0("Rose"), Ty0("Tree")))
  /\ last.schema = Schema_new_ref("#/definitions/Tree")
  /\ \E a \in gen.definitions["Tree"].array : a.items = Some(Single(last.schema))
  /\ gen.synthesis_runs["Tree"] = 1

\* The adapters implemented in the module (PositiveInt and Tree are not).
C9_ModuleBindings == {b \in Bindings : b.TA.k \notin {"PositiveInt", "Tree"}}

\* C9: json_schema of an adapter of the module is not a reference at the top
\* level: never for the impls that build their document, and for a
\* forwarding impl and SetLastValueWins whenever the json_schema of the
\* forwarding target (the inner binding) is not one.
C9_NoTopLevelReference ==
  \A b \in C9_ModuleBindings :
    LET doc == Doc(Proxy(b))
    IN /\ is_forward(b.TA) =>
            (~Schema_is_ref(Doc(forward_target(b.T, b.TA))) => ~Schema_is_ref(doc))
       /\ b.TA.k = "SetLastValueWins" =>
            (~Schema_is_ref(Doc(C6_Inner(b))) => ~Schema_is_ref(doc))
       /\ (~is_forward(b.TA) /\ b.TA.k # "SetLastValueWins") => ~Schema_is_ref(doc)

\* json_schema of a forwarding adapter whose target is referenceable has been
\* called: the answer is the target's document, no reference, while the
\* generator would answer a request for the same target with a reference.
C9_Witness ==
  /\ last.op = "json_schema"
  /\ last.t = Proxy(Binding(Ty0("i64"), Ty1("FromInto", Ty0("Point"))))
  /\ ~Schema_is_ref(last.schema)
  /\ last.schema.instance_type = <<"object">>
  /\ Schema_is_ref(subschema_for(Ty0("Point"), gen, MaxDepth).schema)

C11_PlainMap(b) ==
  Ty2("BTreeMap", WrapSchema(Map_pair(b.T).a[1], b.TA.a[1]),
                  WrapSchema(Map_pair(b.T).a[2], b.TA.a[2]))

\* C11: for Map<KA, VA> over every supported container of pairs, the name,
\* id, referenceability and document (with its effect on the generator) are
\* those of the plain ordered-map schema built from the same key and value
\* adapters, so two containers with the same (KA, VA) over the same pairs
\* give the same result.
C11_MapOverContainers ==
  \A b \in MapBindings :
    /\ Ops(Proxy(b)) = Ops(C11_PlainMap(b))
    /\ Ops(Proxy(b)) =
         Ops(Proxy(Binding(Ty2("BTreeMap", Map_pair(b.T).a[1], Map_pair(b.T).a[2]),
                           Ty2("BTreeMap", b.TA.a[1], b.TA.a[2]))))
    /\ Ops(Proxy(b)) = Ops(Proxy(Binding(Ty1("Vec", Map_pair(b.T)), b.TA)))

\* Map over a Vec of pairs has been described: an object schema whose
\* additional properties are the value adapter's document, as for the plain
\* map, and the same answer as for a fixed array of the same pairs.
C11_Witness ==
  /\ last.op = "subschema_for"
  /\ last.t = Proxy(Binding(Ty1("Vec", TupleTy(<<Ty0("String"), Ty0("bool")>>)),
                            Ty2("Map", Same, Ty1("BoolFromInt", Strict))))
  /\ last.schema.instance_type = <<"object">>
  /\ \E o \in last.schema.object :
       o.additional_properties =
         Some(Doc(Proxy(Binding(Ty0("bool"), Ty1("BoolFromInt", Strict)))))
  /\ last.schema =
       Doc(Proxy(Binding(ArrayTy(TupleTy(<<Ty0("String"), Ty0("bool")>>), usize_MAX),
                         Ty2("Map", Same, Ty1("BoolFromInt", Strict)))))

\* The bindings of the module that answer is_referenceable = false by their
\* own impl, directly or through the timespan tags.
C12_Bindings ==
  {b \in Bindings :
     \/ b.TA.k \in {"BoolFromInt", "BytesOrString", "Array", "SetLastValueWins"}
     \/ b.TA.k \in forward_duration_schema_kinds \cup {"Timespan"} /\ b.TA.a[2] = Flexible}

\* The by-name reference the generator would return for t.
C12_OwnReference(t) == Schema_new_ref(definitions_path \o JsonSchema_schema_name(t))

\* No definition is registered for the binding b's identity.
C12_Unregistered(b, g) ==
  /\ JsonSchema_schema_id(Proxy(b)) \notin DOMAIN g.schema_id_to_name
  /\ \A id \in DOMAIN g.schema_id_to_name :
       g.schema_id_to_name[id] \in DOMAIN g.definitions
  /\ \A name \in DOMAIN g.definitions :
       \E id \in DOMAIN g.schema_id_to_name : g.schema_id_to_name[id] = name

C13_NoRequest ==
  {b \in Bindings :
     \/ b.TA.k = "BoolFromInt"
     \/ b.TA.k \in forward_duration_schema_kinds \cup {"Timespan"} /\ b.TA.a[2] = Flexible}

\* The builders that request sub-schemas.
C13_Requesting == {b \in Bindings : b.TA.k \in {"Array", "BytesOrString"}}

\* The one sub-schema request of a requesting builder.
C13_Requested(b) ==
  IF b.TA.k = "Array" THEN WrapSchema(b.T.a[1], b.TA.a[1]) ELSE Ty1("Vec", Ty0("u8"))

\* Every entry of the function f is an entry of h, unchanged.
C13_Extends(h, f) == \A k \in DOMAIN f : k \in DOMAIN h /\ h[k] = f[k]

\* C13: json_schema of a builder that requests no sub-schema leaves the
\* generator, and so its definition table, as it is; json_schema of a
\* builder that requests sub-schemas changes the generator exactly as its
\* one request does, which only adds definitions (and registered names) and
\* keeps every entry already present.
C13_FrameEffect ==
  /\ \A b \in C13_NoRequest :
       JsonSchema_json_schema(Proxy(b), gen, MaxDepth).gen = gen
  /\ \A b \in C13_Requesting :
       LET g2 == JsonSchema_json_schema(Proxy(b), gen, MaxDepth).gen
       IN /\ g2 = subschema_for(C13_Requested(b), gen, MaxDepth).gen
          /\ C13_Extends(g2.definitions, gen.definitions)
          /\ C13_Extends(g2.schema_id_to_name, gen.schema_id_to_name)
          /\ gen.used_schema_names \subseteq g2.used_schema_names
          /\ g2.pending_schema_ids = gen.pending_schema_ids

\* json_schema of a fixed-size array of Point has been called on a fresh
\* generator: the definition of Point was added, and a further call of a
\* requesting builder over another element keeps it.
C13_Witness ==
  /\ last.op = "json_schema"
  /\ last.t = Proxy(Binding(ArrayTy(Ty0("Point"), <<0, 0, 1, 0>>),
                            ArrayTy(Same, <<0, 0, 1, 0>>)))
  /\ DOMAIN gen.definitions = {"Point"}
  /\ LET g2 == JsonSchema_json_schema(
                 Proxy(Binding(ArrayTy(Ty0("Node"), usize(1)), ArrayTy(Same, usize(1)))),
                 gen, MaxDepth).gen
     IN /\ DOMAIN g2.definitions = {"Point", "Node"}
        /\ g2.definitions["Point"] = gen.definitions["Point"]

=============================================================================
